---- MODULE Spec2Model ----
(***************************************************************************)
(* Trial sequence generator of the TOJ negation experiments               *)
(* (src/src/util/colors.js): generateSequencesAlternating,                *)
(* sequencesToTrials and generateAlternatingSequences; and the sequence-  *)
(* wise randomizers of src/src/util/customRandomizer.js.                  *)
(*                                                                         *)
(* One behaviour of Spec is one call of generateAlternatingSequences, one *)
(* behaviour of SpecRandomizer is one call of a randomizer.  JavaScript   *)
(* values are written as TLA+ values: booleans as BOOLEAN, arrays as      *)
(* sequences (index 0 of the code is index 1 here), objects as functions  *)
(* from key strings to values.  SOA values are written as strings so that *)
(* the value `undefined` (the string "undefined") can stand next to them; *)
(* probeLeft values are written as the strings "true", "false" (booleans) *)
(* and "[true]", "[false]" (one-element arrays) for the same reason.      *)
(*                                                                         *)
(* SpecConditions models the ConditionGenerator classes and Quadrant,     *)
(* SpecTouch a TouchAdapter and the elements it is bound to, SpecPlugin   *)
(* one trial of TojPlugin or DualNegationTojPlugin with a clock.          *)
(***************************************************************************)
EXTENDS Integers, Sequences, FiniteSets, TLC

VARIABLES
    pc,                       \* position inside the call
    factors,                  \* argument: the caller's factor mapping
    repetitions,              \* argument
    probeLeftIsFactor,        \* argument
    blocksize,                \* argument
    alwaysStayUnderBlockSize, \* argument
    trialSequences,           \* result of generateSequencesAlternating, mutated by the walk
    soas,                     \* soas[polarity][sequenceLength][rank]: the stratum pools
    blockIndex,               \* locals of sequencesToTrials
    trialIndexInBlock,
    trials,
    trialCount,
    i,
    rank,
    result,                   \* returned object, or the thrown value
    aliases,                  \* aliases[k]: the sequence record (1-based) that trials[k]
                              \* is the same object as, 0 when it is an object of its own
    randomBelowHalf,          \* the random source: whether the number Math.random()
                              \* yields during this call is below 0.5
    firstRun,                 \* <<>> or <<the trials of an earlier call, as a bag>>
    \* customRandomizer.js
    variant,                  \* which randomizer is called: "partial" or "exact"
    patternList,              \* argument
    randomizedSequenceWise,   \* argument: the name of the sequence-wise factor
    values,                   \* argument
    lastValue,                \* argument of the exact randomizer ("null" when absent)
    singleTrialIdx,           \* locals of the randomizers
    restSequenceCount,
    currentValueIdx,
    value,
    prevValue,
    sequence,                 \* exact randomizer: result of oneNeededGenerateSequence
    sequenceIdx,
    sum,                      \* oneNeededGenerateSequence: what is left to fill
    chunks,                   \* the chunks begun so far: drawn length and value index
    \* ConditionGenerator (color-toj-negation-05, quick-toj)
    experiment,               \* whose ConditionGenerator: "negation" or "quick"
    previousOrientations,     \* field of the generator: identifier -> orientation
    previousPositions,        \* field of the generator: identifier -> position object
    cond,                     \* <<>> or <<the condition generateCondition returned>>
    lastCond,                 \* <<>> or <<the condition returned before cond>>
    conditionCount,           \* number of generateCondition calls so far
    \* TouchAdapter
    elements,                 \* field of the adapter: the tracked elements
    listeners,                \* the DOM elements the adapter's eventListener is attached to
    everBound,                \* the elements the adapter has been bound to at some time
    lastCall,                 \* the last call on the adapter (or touch on an element)
    simulated,                \* whether the last touch simulated the key press
    \* TojPlugin / DualNegationTojPlugin
    plugin,                   \* whose trial() runs: "toj" or "dual"
    trial,                    \* the trial parameters
    mainPc,                   \* position of TojPlugin.trial
    distractorPc,             \* position of modifyDistractorStimuli
    now,                      \* the clock
    mainTimer,                \* when the delay TojPlugin.trial awaits is over (NoTimer: none)
    distractorTimer,          \* the same for modifyDistractorStimuli
    modified,                 \* the calls of the modification function: element and time
    listeningSince,           \* when getKeyboardResponse was called (NoTimer: not yet)
    cleared,                  \* display_element.innerHTML = "" has been executed
    finishCount               \* number of jsPsych.finishTrial calls

vars == <<pc, factors, repetitions, probeLeftIsFactor, blocksize,
          alwaysStayUnderBlockSize, trialSequences, soas, blockIndex,
          trialIndexInBlock, trials, trialCount, i, rank, result,
          aliases, randomBelowHalf, firstRun,
          variant, patternList, randomizedSequenceWise, values, lastValue,
          singleTrialIdx, restSequenceCount, currentValueIdx, value, prevValue,
          sequence, sequenceIdx, sum, chunks,
          experiment, previousOrientations, previousPositions, cond, lastCond,
          conditionCount,
          elements, listeners, everBound, lastCall, simulated,
          plugin, trial, mainPc, distractorPc, now, mainTimer, distractorTimer,
          modified, listeningSince, cleared, finishCount>>

\* the variables only the randomizers of customRandomizer.js use
randomizerVars ==
    <<variant, patternList, randomizedSequenceWise, values, lastValue,
      singleTrialIdx, restSequenceCount, currentValueIdx, value, prevValue,
      sequence, sequenceIdx, sum, chunks>>

\* the variables of the ConditionGenerator classes
conditionVars ==
    <<experiment, previousOrientations, previousPositions, cond, lastCond,
      conditionCount>>

\* the variables of a TouchAdapter and the elements it is bound to
touchVars == <<elements, listeners, everBound, lastCall, simulated>>

\* the variables of a trial of the TOJ plugins
pluginVars ==
    <<plugin, trial, mainPc, distractorPc, now, mainTimer, distractorTimer,
      modified, listeningSince, cleared, finishCount>>

\* the variables of the components next to the trial generators
componentVars == <<conditionVars, touchVars, pluginVars>>

\* no ConditionGenerator is in use
ConditionIdle ==
    /\ experiment = "none"
    /\ previousOrientations = <<>>
    /\ previousPositions = <<>>
    /\ cond = <<>>
    /\ lastCond = <<>>
    /\ conditionCount = 0

\* no TouchAdapter is in use
TouchIdle ==
    /\ elements = <<>>
    /\ listeners = {}
    /\ everBound = {}
    /\ lastCall = <<"none", "">>
    /\ simulated = FALSE

\* no delay is awaited
NoTimer == -1

\* no plugin trial runs
PluginIdle ==
    /\ plugin = "none"
    /\ trial = <<>>
    /\ mainPc = "idle"
    /\ distractorPc = "idle"
    /\ now = 0
    /\ mainTimer = NoTimer
    /\ distractorTimer = NoTimer
    /\ modified = <<>>
    /\ listeningSince = NoTimer
    /\ cleared = FALSE
    /\ finishCount = 0

ComponentsIdle == ConditionIdle /\ TouchIdle /\ PluginIdle

\* the variables only the generator of colors.js uses
generatorVars ==
    <<probeLeftIsFactor, blocksize, alwaysStayUnderBlockSize, trialSequences,
      soas, blockIndex, trialIndexInBlock, trialCount, i, rank, aliases,
      randomBelowHalf, firstRun>>

\* ------------------------------------------------------------------------
\* Bounds of the explored inputs
\* ------------------------------------------------------------------------
MaxRepetitions == 2
MaxBlocksize == 3
\* largest Cartesian product (per polarity) of an explored design
MaxCombinations == 2
\* largest per-polarity pool (combinations times repetitions)
MaxSequences == 4

\* the factor mappings the experiments are explored with
FactorSets ==
    { [isInstructionNegated |-> <<TRUE, FALSE>>, soa |-> <<"0">>,
       sequenceLength |-> <<1>>],
      [isInstructionNegated |-> <<TRUE, FALSE>>, soa |-> <<"-100", "100">>,
       sequenceLength |-> <<1>>],
      [isInstructionNegated |-> <<TRUE, FALSE>>, soa |-> <<"0">>,
       sequenceLength |-> <<1, 2>>],
      [isInstructionNegated |-> <<TRUE, FALSE>>, soa |-> <<"0">>,
       sequenceLength |-> <<3>>],
      [isInstructionNegated |-> <<TRUE, FALSE>>, soa |-> <<"-100", "0", "100">>,
       sequenceLength |-> <<1>>],
      [isInstructionNegated |-> <<TRUE, FALSE>>, soa |-> << >>,
       sequenceLength |-> <<1, 2>>],
      [isInstructionNegated |-> <<TRUE, FALSE>>, soa |-> <<"0">>,
       sequenceLength |-> << >>] }

\* ------------------------------------------------------------------------
\* JavaScript helpers
\* ------------------------------------------------------------------------
Range(s) == { s[k] : k \in DOMAIN s }

Count(s, v) == Cardinality({ k \in DOMAIN s : s[k] = v })

\* obj[key] = val (adds the key when it is missing)
SetKey(obj, key, val) ==
    [ k \in (DOMAIN obj) \cup {key} |-> IF k = key THEN val ELSE obj[k] ]

\* delete obj[key]
DeleteKey(obj, key) == [ k \in (DOMAIN obj) \ {key} |-> obj[k] ]

\* the value of Array.prototype.pop() on an empty array
Undefined == "undefined"

\* an index variable that is still undefined
NoIndex == -1

\* array.pop(): the removed element and the array that is left
PopValue(array) == IF Len(array) = 0 THEN Undefined ELSE array[Len(array)]

PopRest(array) == IF Len(array) = 0 THEN array ELSE SubSeq(array, 1, Len(array) - 1)

\* copy(object): a structurally equal, fresh object
copy(object) == [ k \in DOMAIN object |-> object[k] ]

\* `Math.random < 0.5` compares the function object Math.random (it is not
\* called) with a number: the function converts to NaN and the comparison
\* is false on every evaluation.
MathRandomLessThanHalf == FALSE

\* jsPsych.randomization.repeat(array, n): the possible results, i.e. every
\* array that holds each element of `array` n times as often, in any order
\* (a new array on each call)
repeat(array, n) ==
    { t \in [ 1..(Len(array) * n) -> Range(array) ] :
        \A v \in Range(array) : Count(t, v) = n * Count(array, v) }

\* the combinations of the Cartesian product of the factor value lists
RECURSIVE Combinations(_)
Combinations(f) ==
    IF DOMAIN f = {} THEN { <<>> }
    ELSE LET key == CHOOSE k \in DOMAIN f : TRUE
             rest == DeleteKey(f, key)
         IN  { SetKey(c, key, v) : v \in Range(f[key]), c \in Combinations(rest) }

\* jsPsych.randomization.factorial(factors, n): the possible results, i.e.
\* every array that holds each combination n times, in any order
factorial(f, n) ==
    LET combos == Combinations(f)
    IN  { t \in [ 1..(Cardinality(combos) * n) -> combos ] :
            \A c \in combos : Count(t, c) = n }

\* ------------------------------------------------------------------------
\* generateSequencesAlternating (colors.js 86-133)
\* ------------------------------------------------------------------------
\* slip: probeLeft is not entered as a factor
FactorsCopyWithoutProbeLeft(f, plf) == DeleteKey(copy(f), "probeLeft")

\* factorsCopy after lines 87-97
FactorsCopy(f, plf) ==
    IF plf THEN SetKey(copy(f), "probeLeft", <<"true", "false">>)
    ELSE DeleteKey(copy(f), "probeLeft")

\* slip: factorsCopy is the caller's object itself, so that the overrides
\* of lines 94-103 are made on the caller's mapping
CallerFactorsAliased(f, plf) ==
    SetKey(FactorsCopy(f, plf), "isInstructionNegated", <<TRUE>>)

\* the caller's factors object at the end of generateSequencesAlternating:
\* line 87 makes factorsCopy an object of its own, lines 94-103 write to
\* that copy only
CallerFactors(f, plf) == f

\* lines 107-114: every element gets probeLeft = Math.random < 0.5 ? [true] : [false]
AssignProbeLeft(sequences) ==
    [ k \in DOMAIN sequences |->
        SetKey(sequences[k], "probeLeft",
               IF MathRandomLessThanHalf THEN "[true]" ELSE "[false]") ]

\* slip: the same pool is pushed twice per iteration
ZipSequencesSamePool(assertedSeq, negatedSeq, startWithNegation) ==
    [ k \in 1..(2 * Len(assertedSeq)) |->
        IF startWithNegation THEN negatedSeq[(k + 1) \div 2]
        ELSE assertedSeq[(k + 1) \div 2] ]

\* slip: the order inside the pair flips on every iteration
ZipSequencesFlipping(assertedSeq, negatedSeq, startWithNegation) ==
    [ k \in 1..(2 * Len(assertedSeq)) |->
        LET idx == (k + 1) \div 2
            first == (k % 2 = 1)
            start == IF idx % 2 = 1 THEN startWithNegation ELSE ~startWithNegation
        IN  IF first = start THEN negatedSeq[idx] ELSE assertedSeq[idx] ]

\* lines 120-132: zip the two sequence lists
ZipSequences(assertedSeq, negatedSeq, startWithNegation) ==
    [ k \in 1..(2 * Len(assertedSeq)) |->
        LET idx == (k + 1) \div 2
            first == (k % 2 = 1)
        IN  IF first = startWithNegation THEN negatedSeq[idx] ELSE assertedSeq[idx] ]

\* number of sequence records of one polarity pool
PoolLength(f, reps, plf) ==
    Cardinality(Combinations(
        SetKey(FactorsCopy(f, plf), "isInstructionNegated", <<FALSE>>))) * reps

Init ==
    /\ pc = "generateSequencesAlternating"
    /\ factors \in FactorSets
    /\ repetitions \in 1..MaxRepetitions
    /\ probeLeftIsFactor \in BOOLEAN
    /\ PoolLength(factors, 1, probeLeftIsFactor) <= MaxCombinations
    /\ PoolLength(factors, repetitions, probeLeftIsFactor) <= MaxSequences
    /\ blocksize \in 1..MaxBlocksize
    /\ alwaysStayUnderBlockSize \in BOOLEAN
    /\ trialSequences = <<>>
    /\ soas = <<>>
    /\ blockIndex = 0
    /\ trialIndexInBlock = 0
    /\ trials = <<>>
    /\ trialCount = 0
    /\ i = 0
    /\ rank = 0
    /\ result = <<>>
    /\ aliases = <<>>
    /\ randomBelowHalf = FALSE
    /\ firstRun = <<>>
    /\ variant = "none"
    /\ patternList = <<>>
    /\ randomizedSequenceWise = ""
    /\ values = <<>>
    /\ lastValue = "null"
    /\ singleTrialIdx = 0
    /\ restSequenceCount = 0
    /\ currentValueIdx = 0
    /\ value = Undefined
    /\ prevValue = NoIndex
    /\ sequence = <<>>
    /\ sequenceIdx = 0
    /\ sum = 0
    /\ chunks = <<>>
    /\ ComponentsIdle

\* generateAlternatingSequences line 252: the call of generateSequencesAlternating
GenerateSequencesAlternating ==
    /\ pc = "generateSequencesAlternating"
    /\ LET factorsCopy == FactorsCopy(factors, probeLeftIsFactor)
           fAsserted == SetKey(factorsCopy, "isInstructionNegated", <<FALSE>>)
           fNegated == SetKey(factorsCopy, "isInstructionNegated", <<TRUE>>)
       IN  \E a0 \in factorial(fAsserted, repetitions),
              n0 \in factorial(fNegated, repetitions) :
             LET a1 == IF ~probeLeftIsFactor THEN AssignProbeLeft(a0) ELSE a0
                 n1 == IF ~probeLeftIsFactor THEN AssignProbeLeft(n0) ELSE n0
             IN  \E a2 \in repeat(a1, 1), n2 \in repeat(n1, 1) :
                   trialSequences' = ZipSequences(a2, n2, MathRandomLessThanHalf)
    /\ factors' = CallerFactors(factors, probeLeftIsFactor)
    /\ randomBelowHalf' \in BOOLEAN
    /\ pc' = "sequencesToTrials"
    /\ UNCHANGED <<repetitions, probeLeftIsFactor, blocksize,
                   alwaysStayUnderBlockSize, soas, blockIndex, trialIndexInBlock,
                   trials, trialCount, i, rank, result, aliases, firstRun>>
    /\ UNCHANGED randomizerVars
    /\ UNCHANGED componentVars

\* ------------------------------------------------------------------------
\* sequencesToTrials (colors.js 142-243)
\* ------------------------------------------------------------------------
NotImplemented == "alwaysStayUnderBlockSize===true is not implemented yet"

\* slip: the strict mode is silently ignored
StrictModeIgnored(strict) == FALSE

\* line 150: the condition of the rejection
StrictModeRequested(strict) == strict

\* lines 150-152
ThrowNotImplemented ==
    /\ pc = "sequencesToTrials"
    /\ StrictModeRequested(alwaysStayUnderBlockSize)
    /\ pc' = "threw"
    /\ result' = NotImplemented
    /\ UNCHANGED <<factors, repetitions, probeLeftIsFactor, blocksize,
                   alwaysStayUnderBlockSize, trialSequences, soas, blockIndex,
                   trialIndexInBlock, trials, trialCount, i, rank,
                   aliases, randomBelowHalf, firstRun>>
    /\ UNCHANGED randomizerVars
    /\ UNCHANGED componentVars

\* the strata: polarity (asserted 0, negated 1), sequence length, rank
Strata(f) ==
    UNION { { <<neg, sl, r>> : neg \in 0..1, r \in 0..(sl - 1) } :
              sl \in Range(f.sequenceLength) }

\* cloneArrayAndShuffle, line 168
Reps(reps, plf) == reps + (IF plf THEN 1 ELSE 0)

\* cloneArrayAndShuffle (lines 161-176): the possible contents of one
\* res[rank]: repeat(source, reps), shuffled once more per rank
StratumPools(source, reps, plf) ==
    UNION { repeat(shuffled, 1) : shuffled \in repeat(source, Reps(reps, plf)) }

\* lines 178-204: build the SOA pools and initialise the counters
BuildSoaPools ==
    /\ pc = "sequencesToTrials"
    /\ ~StrictModeRequested(alwaysStayUnderBlockSize)
    /\ \E pool \in [ Strata(factors) ->
                       StratumPools(factors.soa, repetitions, probeLeftIsFactor) ] :
         soas' = [ neg \in 0..1 |->
                    [ sl \in Range(factors.sequenceLength) |->
                       [ r \in 1..sl |-> pool[<<neg, sl, r - 1>>] ] ] ]
    /\ blockIndex' = 0
    /\ trialIndexInBlock' = 0
    /\ trials' = <<>>
    /\ trialCount' = 0
    /\ i' = 0
    /\ rank' = 0
    /\ aliases' = <<>>
    /\ pc' = "loop"
    /\ UNCHANGED <<factors, repetitions, probeLeftIsFactor, blocksize,
                   alwaysStayUnderBlockSize, trialSequences, result,
                   randomBelowHalf, firstRun>>
    /\ UNCHANGED randomizerVars
    /\ UNCHANGED componentVars

\* slip: blocks cut at fixed multiples of blocksize
TagSequenceFixedBlocks(seq, soaValue, bIdx, rnk, tCount, tInBlock) ==
    SetKey(SetKey(SetKey(SetKey(SetKey(seq,
        "soa", soaValue),
        "blockIndex", tCount \div blocksize),
        "rank", rnk),
        "trialIndex", tCount),
        "trialIndexInBlock", tInBlock)

\* slip: the in-block counter is stored as trialIndex
TagSequenceInBlockIndex(seq, soaValue, bIdx, rnk, tCount, tInBlock) ==
    SetKey(SetKey(SetKey(SetKey(SetKey(seq,
        "soa", soaValue),
        "blockIndex", bIdx),
        "rank", rnk),
        "trialIndex", tInBlock),
        "trialIndexInBlock", tInBlock)

\* lines 215-219: the fields written to trialSequences[i]
TagSequence(seq, soaValue, bIdx, rnk, tCount, tInBlock) ==
    SetKey(SetKey(SetKey(SetKey(SetKey(seq,
        "soa", soaValue),
        "blockIndex", bIdx),
        "rank", rnk),
        "trialIndex", tCount),
        "trialIndexInBlock", tInBlock)

\* slip: the sequence record itself is pushed, not a copy of it
PushedIdentityShared(idx) == idx

\* line 220: the identity of the pushed object; copy() returns an object
\* of its own (0), not the sequence record number idx
PushedIdentity(idx) == 0

\* lines 215-219 write to the object trialSequences[idx]: every element of
\* the trial list that is this same object shows the new fields
WriteThrough(ts, al, idx, obj) ==
    [ k \in DOMAIN ts |-> IF al[k] = idx THEN obj ELSE ts[k] ]

\* lines 212-223: one pass of the inner loop body
TagTrial ==
    /\ pc = "loop"
    /\ i < Len(trialSequences)
    /\ rank < trialSequences[i + 1].sequenceLength
    /\ LET seq == trialSequences[i + 1]
           sequenceLength == seq.sequenceLength
           neg == IF seq.isInstructionNegated THEN 1 ELSE 0
           pool == soas[neg][sequenceLength][rank + 1]
           tagged == TagSequence(seq, PopValue(pool), blockIndex, rank,
                                 trialCount, trialIndexInBlock)
       IN  /\ soas' = [soas EXCEPT ![neg][sequenceLength][rank + 1] = PopRest(pool)]
           /\ trialSequences' = [trialSequences EXCEPT ![i + 1] = tagged]
           /\ trials' = Append(WriteThrough(trials, aliases, i + 1, tagged),
                               copy(tagged))
    /\ aliases' = Append(aliases, PushedIdentity(i + 1))
    /\ trialCount' = trialCount + 1
    /\ trialIndexInBlock' = trialIndexInBlock + 1
    /\ rank' = rank + 1
    /\ UNCHANGED <<pc, factors, repetitions, probeLeftIsFactor, blocksize,
                   alwaysStayUnderBlockSize, blockIndex, i, result,
                   randomBelowHalf, firstRun>>
    /\ UNCHANGED randomizerVars
    /\ UNCHANGED componentVars

\* slip: strict comparison
BlockIsFullStrictlyOver(tInBlock, bsize, strict) == ~strict /\ tInBlock > bsize

\* line 234: the condition that ends the block
BlockIsFull(tInBlock, bsize, strict) == ~strict /\ tInBlock >= bsize

\* slip: the in-block counter is not reset when the block ends
EndSequenceNoReset ==
    /\ pc = "loop"
    /\ i < Len(trialSequences)
    /\ rank >= trialSequences[i + 1].sequenceLength
    /\ IF BlockIsFull(trialIndexInBlock, blocksize, alwaysStayUnderBlockSize)
       THEN /\ trialIndexInBlock' = trialIndexInBlock
            /\ blockIndex' = blockIndex + 1
       ELSE UNCHANGED <<trialIndexInBlock, blockIndex>>
    /\ i' = i + 1
    /\ rank' = 0
    /\ UNCHANGED <<pc, factors, repetitions, probeLeftIsFactor, blocksize,
                   alwaysStayUnderBlockSize, trialSequences, soas, trials,
                   trialCount, result, aliases, randomBelowHalf, firstRun>>
    /\ UNCHANGED randomizerVars
    /\ UNCHANGED componentVars

\* lines 233-238: after the last trial of a sequence, end the block when it
\* is full, then go on with the next sequence
EndSequence ==
    /\ pc = "loop"
    /\ i < Len(trialSequences)
    /\ rank >= trialSequences[i + 1].sequenceLength
    /\ IF BlockIsFull(trialIndexInBlock, blocksize, alwaysStayUnderBlockSize)
       THEN /\ trialIndexInBlock' = 0
            /\ blockIndex' = blockIndex + 1
       ELSE UNCHANGED <<trialIndexInBlock, blockIndex>>
    /\ i' = i + 1
    /\ rank' = 0
    /\ UNCHANGED <<pc, factors, repetitions, probeLeftIsFactor, blocksize,
                   alwaysStayUnderBlockSize, trialSequences, soas, trials,
                   trialCount, result, aliases, randomBelowHalf, firstRun>>
    /\ UNCHANGED randomizerVars
    /\ UNCHANGED componentVars

\* slip: the block counter of the loop is used
BlockCountFromCounter(ts) == blockIndex + 1

\* line 241
BlockCount(ts) == ts[Len(ts)].blockIndex + 1

\* lines 239-242: the returned object; trials[trials.length - 1] of an empty
\* list is undefined and reading its blockIndex throws a TypeError
Return ==
    /\ pc = "loop"
    /\ i >= Len(trialSequences)
    /\ IF Len(trials) = 0
       THEN /\ pc' = "threw"
            /\ result' = "TypeError"
       ELSE /\ pc' = "done"
            /\ result' = [trials |-> trials, blockCount |-> BlockCount(trials)]
    /\ UNCHANGED <<factors, repetitions, probeLeftIsFactor, blocksize,
                   alwaysStayUnderBlockSize, trialSequences, soas, blockIndex,
                   trialIndexInBlock, trials, trialCount, i, rank,
                   aliases, randomBelowHalf, firstRun>>
    /\ UNCHANGED randomizerVars
    /\ UNCHANGED componentVars

Next ==
    \/ GenerateSequencesAlternating
    \/ ThrowNotImplemented
    \/ BuildSoaPools
    \/ TagTrial
    \/ EndSequence
    \/ Return

Spec == Init /\ [][Next]_vars

\* ------------------------------------------------------------------------
\* Two calls with the same arguments (e.g. trials and tutorial trials)
\* ------------------------------------------------------------------------
MetadataKeys == {"blockIndex", "rank", "trialIndex", "trialIndexInBlock"}

\* the factor values of a trial: the record without the position metadata
\* of lines 216-219
TrialFactors(t) == [ k \in (DOMAIN t) \ MetadataKeys |-> t[k] ]

\* the trials of a returned list as a bag of factor-value combinations
BagOfTrials(ts) ==
    [ c \in { TrialFactors(ts[k]) : k \in DOMAIN ts } |->
        Cardinality({ k \in DOMAIN ts : TrialFactors(ts[k]) = c }) ]

\* the caller keeps the returned trials and calls generateAlternatingSequences
\* once more with the same arguments
Rerun ==
    /\ pc = "done"
    /\ firstRun = <<>>
    /\ firstRun' = << BagOfTrials(result.trials) >>
    /\ pc' = "generateSequencesAlternating"
    /\ trialSequences' = <<>>
    /\ soas' = <<>>
    /\ blockIndex' = 0
    /\ trialIndexInBlock' = 0
    /\ trials' = <<>>
    /\ trialCount' = 0
    /\ i' = 0
    /\ rank' = 0
    /\ result' = <<>>
    /\ aliases' = <<>>
    /\ randomBelowHalf' = FALSE
    /\ UNCHANGED <<factors, repetitions, probeLeftIsFactor, blocksize,
                   alwaysStayUnderBlockSize>>
    /\ UNCHANGED randomizerVars
    /\ UNCHANGED componentVars

NextTwice ==
    \/ GenerateSequencesAlternating
    \/ ThrowNotImplemented
    \/ BuildSoaPools
    \/ TagTrial
    \/ EndSequence
    \/ Return
    \/ Rerun

SpecTwice == Init /\ [][NextTwice]_vars

TypeOK ==
    /\ pc \in {"generateSequencesAlternating", "sequencesToTrials", "loop", "done", "threw"}
    /\ trialCount = Len(trials)

\* ------------------------------------------------------------------------
\* Properties of the generator
\* ------------------------------------------------------------------------
RECURSIVE SumOfLengths(_, _)
\* number of trials the first n sequence records stand for
SumOfLengths(seqs, n) ==
    IF n = 0 THEN 0 ELSE SumOfLengths(seqs, n - 1) + seqs[n].sequenceLength

\* the sequence record (1-based) the k-th returned trial was produced from
RunOf(k) ==
    CHOOSE j \in 1..Len(trialSequences) :
        /\ SumOfLengths(trialSequences, j - 1) < k
        /\ k <= SumOfLengths(trialSequences, j)

Returned == pc = "done"

\* a..b is a maximal stretch of trials of equal polarity
IsMaximalRun(a, b) ==
    /\ a <= b
    /\ \A k \in a..b : trials[k].isInstructionNegated = trials[a].isInstructionNegated
    /\ a > 1 => trials[a - 1].isInstructionNegated # trials[a].isInstructionNegated
    /\ b < Len(trials) => trials[b + 1].isInstructionNegated # trials[a].isInstructionNegated

\* the positions of the trials of block b
BlockMembers(b) == { k \in 1..Len(trials) : trials[k].blockIndex = b }

LastBlock == trials[Len(trials)].blockIndex

MaxSequenceLength ==
    CHOOSE m \in Range(factors.sequenceLength) :
        \A n \in Range(factors.sequenceLength) : n <= m

\* C1: runs strictly alternate in polarity: the trials of one run share
\* isInstructionNegated, and every trial that starts a run (rank 0), other
\* than the very first trial, has the opposite isInstructionNegated of the
\* trial right before it.
C1_StrictAlternation ==
    \A k \in 1..(Len(trials) - 1) :
        /\ (trials[k + 1].rank = 0) <=> (RunOf(k + 1) # RunOf(k))
        /\ RunOf(k + 1) = RunOf(k) =>
             trials[k + 1].isInstructionNegated = trials[k].isInstructionNegated
        /\ trials[k + 1].rank = 0 =>
             trials[k + 1].isInstructionNegated # trials[k].isInstructionNegated

C1_Witness ==
    /\ Returned
    /\ \E k \in 1..(Len(trials) - 2) :
         /\ trials[k].rank = 0
         /\ trials[k + 1].rank = 1
         /\ trials[k + 2].rank = 0
         /\ trials[k + 2].isInstructionNegated # trials[k + 1].isInstructionNegated

\* C2: every trial has a soa that is a member of factors.soa (never
\* undefined), for every repetitions >= 1 and both values of
\* probeLeftIsFactor: no stratum pool is popped after it became empty.
C2_SoaAlwaysDefined ==
    \A k \in 1..Len(trials) : trials[k].soa \in Range(factors.soa)

\* C3: every maximal run of trials of equal isInstructionNegated, except
\* possibly the final one, has a length that is a member of
\* factors.sequenceLength and equals the sequenceLength field of its trials.
C3_RunLengthsAllowed ==
    \A a \in 1..Len(trials) : \A b \in a..(Len(trials) - 1) :
        IsMaximalRun(a, b) =>
            /\ (b - a + 1) \in Range(factors.sequenceLength)
            /\ \A k \in a..b : trials[k].sequenceLength = b - a + 1

C3_Witness ==
    /\ Returned
    /\ \E a \in 1..(Len(trials) - 2) : IsMaximalRun(a, a + 1)
    /\ \E c \in 1..(Len(trials) - 1) : IsMaximalRun(c, c)

\* C4: two consecutive trials of the same run have equal blockIndex, also
\* when the run is longer than blocksize.
C4_RunNotSplit ==
    \A k \in 1..(Len(trials) - 1) :
        RunOf(k + 1) = RunOf(k) => trials[k + 1].blockIndex = trials[k].blockIndex

C4_Witness ==
    /\ Returned
    /\ \E k \in 1..(Len(trials) - 1) :
         /\ RunOf(k + 1) = RunOf(k)
         /\ trials[k].sequenceLength > blocksize
         /\ trials[k].blockIndex >= 1
         /\ trials[k].trialIndexInBlock + 1 >= blocksize

\* C5: blockIndex starts at 0, never decreases and grows by exactly 1 at a
\* block boundary; trialIndexInBlock is 0 exactly at the first trial and at
\* each position where blockIndex grows, and the previous value + 1
\* everywhere else.
C5_BlockMonotonic ==
    /\ Len(trials) >= 1 =>
         trials[1].blockIndex = 0 /\ trials[1].trialIndexInBlock = 0
    /\ \A k \in 1..(Len(trials) - 1) :
         /\ trials[k + 1].blockIndex \in {trials[k].blockIndex, trials[k].blockIndex + 1}
         /\ (trials[k + 1].trialIndexInBlock = 0)
              <=> (trials[k + 1].blockIndex = trials[k].blockIndex + 1)
         /\ trials[k + 1].blockIndex = trials[k].blockIndex =>
              trials[k + 1].trialIndexInBlock = trials[k].trialIndexInBlock + 1

C5_Witness ==
    /\ Returned
    /\ \E k \in 1..(Len(trials) - 2) :
         /\ trials[k + 1].blockIndex = trials[k].blockIndex + 1
         /\ trials[k + 2].blockIndex = trials[k + 1].blockIndex
         /\ trials[k].trialIndexInBlock >= 1

\* C6: the trialIndex values are 0, 1, ..., N-1 in list order, and the
\* number N of returned trials is the sum of sequenceLength over all
\* sequence records.
C6_TrialIndexDense ==
    /\ \A k \in 1..Len(trials) : trials[k].trialIndex = k - 1
    /\ Returned =>
         /\ Len(result.trials) = SumOfLengths(trialSequences, Len(trialSequences))
         /\ \A k \in 1..Len(result.trials) : result.trials[k].trialIndex = k - 1

C6_Witness ==
    /\ Returned
    /\ Len(result.trials) >= 6
    /\ result.trials[Len(result.trials)].blockIndex >= 1
    /\ result.trials[Len(result.trials)].trialIndex
         # result.trials[Len(result.trials)].trialIndexInBlock

\* C7: a call with alwaysStayUnderBlockSize = true always ends in a thrown
\* error: the only step sequencesToTrials takes is the throw, nothing is
\* returned and no trial is tagged.
C7_StrictModeThrows ==
    /\ [](alwaysStayUnderBlockSize =>
            /\ pc \in {"generateSequencesAlternating", "sequencesToTrials", "threw"}
            /\ trials = <<>>
            /\ (pc = "threw" => result = NotImplemented))
    /\ [][(alwaysStayUnderBlockSize /\ pc = "sequencesToTrials") =>
            (pc' = "threw" /\ result' = NotImplemented)]_vars

C7_Witness ==
    /\ alwaysStayUnderBlockSize
    /\ pc = "threw"
    /\ result = NotImplemented
    /\ Len(trialSequences) >= 4

\* C8: every block except the last holds at least blocksize and at most
\* blocksize + max(factors.sequenceLength) trials, and it exceeds blocksize
\* only by trials of the one run that straddles the boundary (the run that
\* ends the block starts below blocksize).
C8_BlockSizeBounds ==
    Len(trials) >= 1 =>
        \A b \in 0..(LastBlock - 1) :
            LET members == BlockMembers(b)
                size == Cardinality(members)
                last == CHOOSE k \in members : \A m \in members : m <= k
            IN  /\ size >= blocksize
                /\ size <= blocksize + MaxSequenceLength
                /\ trials[last].trialIndexInBlock - trials[last].rank < blocksize

C8_Witness ==
    /\ Returned
    /\ \E b \in 0..(LastBlock - 1) : Cardinality(BlockMembers(b)) > blocksize
    /\ \E b \in 0..(LastBlock - 1) : Cardinality(BlockMembers(b)) = blocksize

\* C9: the returned blockCount is the last trial's blockIndex + 1 and the
\* number of distinct blockIndex values: every index below blockCount labels
\* at least one trial.
C9_BlockCountExact ==
    Returned =>
        /\ result.blockCount = result.trials[Len(result.trials)].blockIndex + 1
        /\ result.blockCount =
             Cardinality({ result.trials[k].blockIndex : k \in 1..Len(result.trials) })
        /\ \A b \in 0..(result.blockCount - 1) :
             \E k \in 1..Len(result.trials) : result.trials[k].blockIndex = b

\* the last run filled its block exactly: the loop's counter ran ahead
C9_Witness ==
    /\ Returned
    /\ trialIndexInBlock = 0
    /\ blockIndex = result.blockCount
    /\ result.blockCount >= 2

\* the SOA values assigned to the trials of one stratum
AssignedSoas(st) ==
    { k \in 1..Len(trials) :
        /\ (IF trials[k].isInstructionNegated THEN 1 ELSE 0) = st[1]
        /\ trials[k].sequenceLength = st[2]
        /\ trials[k].rank = st[3] }

\* C10: over one complete call, the SOA values assigned to the trials of a
\* stratum are exactly the multiset its pool was seeded with: factors.soa
\* replicated repetitions + (probeLeftIsFactor ? 1 : 0) times.
C10_StratumMultiset ==
    Returned =>
        \A st \in Strata(factors) :
            /\ \A k \in AssignedSoas(st) : trials[k].soa \in Range(factors.soa)
            /\ \A v \in Range(factors.soa) :
                 Cardinality({ k \in AssignedSoas(st) : trials[k].soa = v })
                   = Count(factors.soa, v) * Reps(repetitions, probeLeftIsFactor)

\* C11: two calls with the same arguments but different random choices
\* return the same multiset of trials, compared by their factor values
\* (isInstructionNegated, sequenceLength, soa, probeLeft, ...), in both
\* probeLeftIsFactor modes.
C11_SameMultisetTwice ==
    (pc = "done" /\ firstRun # <<>>) => BagOfTrials(result.trials) = firstRun[1]

\* C12: the polarity of the first run follows the random draw: the first
\* trial is negated in the executions whose draw is below 0.5 and asserted
\* in the others, so both kinds of execution exist.
C12_RandomStartPolarity ==
    Returned => (result.trials[1].isInstructionNegated <=> randomBelowHalf)

\* what the code does instead: the first trial is asserted in every execution
FirstTrialAlwaysAsserted ==
    Len(trials) >= 1 => ~trials[1].isInstructionNegated

\* C13: in not-a-factor mode (probeLeftIsFactor = false) the probeLeft of
\* each trial is a boolean, drawn per trial (true and false both possible).
C13_ProbeLeftBoolean ==
    ~probeLeftIsFactor =>
        \A k \in 1..Len(trials) : trials[k].probeLeft \in {"true", "false"}

\* some factor of the caller's mapping has an empty value list
HasEmptyFactor == \E key \in DOMAIN factors : Len(factors[key]) = 0

\* C14: a call with a factor whose value list is empty (soa: [] or
\* sequenceLength: []) raises no error and returns an empty trial list.
C14_EmptyFactorNoError ==
    (HasEmptyFactor /\ ~alwaysStayUnderBlockSize) =>
        /\ pc # "threw"
        /\ Returned => result.trials = <<>>

\* the factor values a sequence record of one polarity pool is drawn from:
\* every factor but the polarity, and both probeLeft values in is-factor mode
NonPolarityFactors ==
    LET others == DeleteKey(DeleteKey(factors, "isInstructionNegated"), "probeLeft")
    IN  IF probeLeftIsFactor THEN SetKey(others, "probeLeft", <<"true", "false">>)
        ELSE others

Matches(rec, c) == \A key \in DOMAIN c : key \in DOMAIN rec /\ rec[key] = c[key]

\* the records of one polarity in the result of generateSequencesAlternating
PoolOf(negated) ==
    { k \in 1..Len(trialSequences) : trialSequences[k].isInstructionNegated = negated }

\* C15: each of the two per-polarity pools holds every combination of the
\* non-polarity factor values exactly `repetitions` times; both pools have
\* the same length L and the result consists of 2L runs, L of each polarity.
C15_PoolsComplete ==
    pc = "sequencesToTrials" =>
        LET combos == Combinations(NonPolarityFactors)
            L == Cardinality(combos) * repetitions
        IN  /\ Len(trialSequences) = 2 * L
            /\ \A negated \in BOOLEAN :
                 /\ Cardinality(PoolOf(negated)) = L
                 /\ \A c \in combos :
                      Cardinality({ k \in PoolOf(negated) :
                                      Matches(trialSequences[k], c) }) = repetitions

C15_Witness ==
    /\ pc = "sequencesToTrials"
    /\ probeLeftIsFactor
    /\ repetitions = 2
    /\ Len(trialSequences) = 8

\* C16: within every run the rank values are 0, 1, ..., sequenceLength-1 in
\* list order, and a trial that is in the list keeps the fields of its own
\* step: later steps (which write to the same sequence record) change no
\* element that is already in the list.
C16_RankAndFieldsKept ==
    /\ [](\A k \in 1..Len(trials) :
            /\ trials[k].rank = k - 1 - SumOfLengths(trialSequences, RunOf(k) - 1)
            /\ trials[k].rank < trials[k].sequenceLength)
    /\ [][\A k \in 1..Len(trials) : k <= Len(trials') /\ trials'[k] = trials[k]]_vars

C16_Witness ==
    /\ Returned
    /\ \E k \in 1..(Len(trials) - 2) :
         /\ trials[k].rank = 0
         /\ trials[k + 1].rank = 1
         /\ trials[k + 2].rank = 2
         /\ trialSequences[RunOf(k)].rank = 2
         /\ trialSequences[RunOf(k)].trialIndex = trials[k].trialIndex + 2

MaxTrials == 4

\* factor mappings a caller passes (color-toj-negation-03b.js 209-213)
RandomizerFactorSets ==
    { [isInstructionNegated |-> <<"true", "false">>, soa |-> <<"0">>],
      [isInstructionNegated |-> <<"true", "false">>,
       probeLeft |-> <<"true", "false">>, soa |-> <<"0">>],
      [isInstructionNegated |-> <<"true", "false">>,
       soa |-> <<"-100", "0", "100">>],
      [isInstructionNegated |-> <<"true", "false">>, soa |-> << >>] }

\* pattern lists: the callers' [1,2,5] and [1,3,6], and one without 1
PatternLists == { <<1, 2, 5>>, <<1, 3, 6>>, <<2, 3>> }

ValueLists == { <<"true", "false">>, <<"a", "b", "c">>, <<"true">> }

\* slip: the draw always gives the lower end
RandomIntLowest(min, max) == {min}

\* randomInt(min, max) of the random-int package:
\* Math.floor(Math.random() * (max - min + 1) + min)
RandomInt(min, max) == IF max < min THEN {min} ELSE min..max

\* array[idx] of a JavaScript array (0-based)
At(array, idx) ==
    IF idx + 1 \in DOMAIN array THEN array[idx + 1] ELSE Undefined

\* array.indexOf(v)
IndexOf(array, v) ==
    IF v \in Range(array)
    THEN (CHOOSE k \in DOMAIN array :
              array[k] = v /\ \A j \in 1..(k - 1) : array[j] # v) - 1
    ELSE -1

RECURSIVE SumSeq(_)
SumSeq(s) == IF s = <<>> THEN 0 ELSE Head(s) + SumSeq(Tail(s))

InitRandomizer ==
    /\ pc = "randomizer"
    /\ variant \in {"partial", "exact"}
    /\ factors \in RandomizerFactorSets
    /\ randomizedSequenceWise = "isInstructionNegated"
    /\ repetitions \in 1..MaxTrials
    /\ Cardinality(Combinations(DeleteKey(factors, randomizedSequenceWise)))
           * repetitions <= MaxTrials
    /\ patternList \in PatternLists
    /\ values \in ValueLists
    /\ lastValue \in IF variant = "exact" THEN {"null"} \cup Range(values)
                                          ELSE {"null"}
    /\ singleTrialIdx = 0
    /\ restSequenceCount = 0
    /\ currentValueIdx = 0
    /\ value = Undefined
    /\ prevValue = NoIndex
    /\ sequence = <<>>
    /\ sequenceIdx = 0
    /\ sum = 0
    /\ chunks = <<>>
    /\ ComponentsIdle
    /\ trials = <<>>
    /\ result = <<>>
    /\ probeLeftIsFactor = FALSE
    /\ blocksize = 1
    /\ alwaysStayUnderBlockSize = FALSE
    /\ trialSequences = <<>>
    /\ soas = <<>>
    /\ blockIndex = 0
    /\ trialIndexInBlock = 0
    /\ trialCount = 0
    /\ i = 0
    /\ rank = 0
    /\ aliases = <<>>
    /\ randomBelowHalf = FALSE
    /\ firstRun = <<>>

\* lines 3-4 and 29-34: delete the sequence-wise factor from the caller's
\* mapping, build the factorial design of the remaining factors; the exact
\* variant then calls oneNeededGenerateSequence(patternList, trials.length)
RandomizerEnter ==
    /\ pc = "randomizer"
    /\ factors' = DeleteKey(factors, randomizedSequenceWise)
    /\ trials' \in factorial(factors', repetitions)
    /\ IF variant = "exact"
       THEN pc' = "oneNeeded" /\ sum' = Len(trials')
       ELSE pc' = "pickStart" /\ sum' = sum
    /\ UNCHANGED <<repetitions, result, variant, patternList,
                   randomizedSequenceWise, values, lastValue, singleTrialIdx,
                   restSequenceCount, currentValueIdx, value, prevValue,
                   sequence, sequenceIdx, chunks>>
    /\ UNCHANGED generatorVars
    /\ UNCHANGED componentVars

\* slip: only the patterns strictly below the rest are kept
PossiblePatternsStrict(patterns, s) == SelectSeq(patterns, LAMBDA a : a < s)

\* line 69: patterns.filter((a) => a <= sum)
PossiblePatterns(patterns, s) == SelectSeq(patterns, LAMBDA a : a <= s)

\* lines 69-72: one level of the recursion of oneNeededGenerateSequence
OneNeededStep ==
    /\ pc = "oneNeeded"
    /\ sum # 0
    /\ LET possiblePatterns == PossiblePatterns(patternList, sum)
       IN  /\ possiblePatterns # <<>>
           /\ \E r \in RandomInt(0, Len(possiblePatterns) - 1) :
                LET choice == At(possiblePatterns, r)
                IN  /\ sequence' = Append(sequence, choice)
                    /\ sum' = sum - choice
    /\ UNCHANGED <<pc, factors, repetitions, trials, result, variant,
                   patternList, randomizedSequenceWise, values, lastValue,
                   singleTrialIdx, restSequenceCount, currentValueIdx, value,
                   prevValue, sequenceIdx, chunks>>
    /\ UNCHANGED generatorVars
    /\ UNCHANGED componentVars

\* lines 69-72 when no pattern fits: choice is undefined, sum - choice is
\* NaN, no later level returns, and the recursion ends with a RangeError
OneNeededOverflow ==
    /\ pc = "oneNeeded"
    /\ sum # 0
    /\ PossiblePatterns(patternList, sum) = <<>>
    /\ pc' = "threw"
    /\ result' = <<"RangeError">>
    /\ UNCHANGED <<factors, repetitions, trials, variant, patternList,
                   randomizedSequenceWise, values, lastValue, singleTrialIdx,
                   restSequenceCount, currentValueIdx, value, prevValue,
                   sequence, sequenceIdx, sum, chunks>>
    /\ UNCHANGED generatorVars
    /\ UNCHANGED componentVars

\* lines 66-67: sum === 0, the sequence is returned
OneNeededReturn ==
    /\ pc = "oneNeeded"
    /\ sum = 0
    /\ pc' = "pickStart"
    /\ UNCHANGED <<factors, repetitions, trials, result, variant, patternList,
                   randomizedSequenceWise, values, lastValue, singleTrialIdx,
                   restSequenceCount, currentValueIdx, value, prevValue,
                   sequence, sequenceIdx, sum, chunks>>
    /\ UNCHANGED generatorVars
    /\ UNCHANGED componentVars

\* lines 8 and 35-40: the index of the first value
PickStart ==
    /\ pc = "pickStart"
    /\ IF variant = "exact" /\ lastValue # "null"
       THEN LET choiceValues == SelectSeq(values, LAMBDA v : v # lastValue)
            IN  \E r \in RandomInt(0, Len(choiceValues) - 1) :
                  currentValueIdx' = IndexOf(values, At(values, r))
       ELSE currentValueIdx' \in RandomInt(0, Len(values) - 1)
    /\ pc' = "while"
    /\ UNCHANGED <<factors, repetitions, trials, result, variant, patternList,
                   randomizedSequenceWise, values, lastValue, singleTrialIdx,
                   restSequenceCount, value, prevValue, sequence, sequenceIdx,
                   sum, chunks>>
    /\ UNCHANGED generatorVars
    /\ UNCHANGED componentVars

\* lines 14-17 and 48-52: a new chunk begins
BeginChunk ==
    /\ pc = "while"
    /\ singleTrialIdx < Len(trials)
    /\ restSequenceCount = 0
    /\ IF variant = "exact"
       THEN /\ restSequenceCount' = At(sequence, sequenceIdx)
            /\ sequenceIdx' = sequenceIdx + 1
       ELSE /\ \E r \in RandomInt(0, Len(patternList) - 1) :
                  restSequenceCount' = At(patternList, r)
            /\ sequenceIdx' = sequenceIdx
    /\ value' = At(values, currentValueIdx)
    /\ prevValue' = currentValueIdx
    /\ chunks' = Append(chunks, [length |-> restSequenceCount',
                                 valueIdx |-> currentValueIdx,
                                 start |-> singleTrialIdx])
    /\ pc' = "redraw"
    /\ UNCHANGED <<factors, repetitions, trials, result, variant, patternList,
                   randomizedSequenceWise, values, lastValue, singleTrialIdx,
                   currentValueIdx, sequence, sum>>
    /\ UNCHANGED generatorVars
    /\ UNCHANGED componentVars

\* slip: the index is never drawn again
MustRedrawNever(current, prev) == FALSE

\* lines 18 and 53: while(currentValueIdx === prevValue)
MustRedraw(current, prev) == current = prev

\* lines 19 and 54: draw the index of the next chunk's value again
Redraw ==
    /\ pc = "redraw"
    /\ MustRedraw(currentValueIdx, prevValue)
    /\ currentValueIdx' \in RandomInt(0, Len(values) - 1)
    /\ UNCHANGED <<pc, factors, repetitions, trials, result, variant,
                   patternList, randomizedSequenceWise, values, lastValue,
                   singleTrialIdx, restSequenceCount, value, prevValue,
                   sequence, sequenceIdx, sum, chunks>>
    /\ UNCHANGED generatorVars
    /\ UNCHANGED componentVars

\* slip: the rest of the chunk is not counted down
RestAfterAssignKept(rest) == rest

\* lines 24 and 59
RestAfterAssign(rest) == rest - 1

\* lines 22-24 and 57-59: the trial gets the chunk's value
Assign ==
    /\ \/ pc = "redraw" /\ ~MustRedraw(currentValueIdx, prevValue)
       \/ /\ pc = "while"
          /\ singleTrialIdx < Len(trials)
          /\ restSequenceCount # 0
    /\ trials' = [trials EXCEPT ![singleTrialIdx + 1] =
                      SetKey(@, randomizedSequenceWise, value)]
    /\ singleTrialIdx' = singleTrialIdx + 1
    /\ restSequenceCount' = RestAfterAssign(restSequenceCount)
    /\ pc' = "while"
    /\ UNCHANGED <<factors, repetitions, result, variant, patternList,
                   randomizedSequenceWise, values, lastValue, currentValueIdx,
                   value, prevValue, sequence, sequenceIdx, sum, chunks>>
    /\ UNCHANGED generatorVars
    /\ UNCHANGED componentVars

\* lines 26 and 61: return trials
RandomizerReturn ==
    /\ pc = "while"
    /\ singleTrialIdx >= Len(trials)
    /\ pc' = "returned"
    /\ result' = trials
    /\ UNCHANGED <<factors, repetitions, trials, variant, patternList,
                   randomizedSequenceWise, values, lastValue, singleTrialIdx,
                   restSequenceCount, currentValueIdx, value, prevValue,
                   sequence, sequenceIdx, sum, chunks>>
    /\ UNCHANGED generatorVars
    /\ UNCHANGED componentVars

NextRandomizer ==
    \/ RandomizerEnter
    \/ OneNeededStep
    \/ OneNeededOverflow
    \/ OneNeededReturn
    \/ PickStart
    \/ BeginChunk
    \/ Redraw
    \/ Assign
    \/ RandomizerReturn

SpecRandomizer == InitRandomizer /\ [][NextRandomizer]_vars

\* ------------------------------------------------------------------------
\* Properties of the randomizers
\* ------------------------------------------------------------------------
\* number of trials of chunk j in a list of n trials
ChunkEnd(j, n) ==
    IF chunks[j].start + chunks[j].length < n
    THEN chunks[j].start + chunks[j].length
    ELSE n

\* C18: the list partialRandomizePartialRandomizeSequencewise returns is a
\* concatenation of chunks: each chunk has a length drawn from patternList
\* and begins where the chunk before it ends, only the last chunk is cut
\* off at the end of the list, and every trial of a chunk carries the
\* chunk's value of the sequence-wise factor.  The list has as many trials
\* as the factorial design of the remaining factors, and every trial has
\* the sequence-wise factor set.
C18_ChunksOfPatternLengths ==
    (pc = "returned" /\ variant = "partial") =>
        LET n == Len(result)
        IN  /\ n = Cardinality(Combinations(factors)) * repetitions
            /\ \A k \in 1..n : randomizedSequenceWise \in DOMAIN result[k]
            /\ (n = 0) <=> (chunks = <<>>)
            /\ \A j \in 1..Len(chunks) :
                 /\ chunks[j].length \in Range(patternList)
                 /\ chunks[j].start = IF j = 1 THEN 0
                                      ELSE chunks[j - 1].start + chunks[j - 1].length
                 /\ chunks[j].start < n
                 /\ j = Len(chunks) => chunks[j].start + chunks[j].length >= n
                 /\ \A k \in (chunks[j].start + 1)..ChunkEnd(j, n) :
                      result[k][randomizedSequenceWise] = At(values, chunks[j].valueIdx)

\* a returned list of four trials in three chunks, the last one cut off
C18_Witness ==
    /\ pc = "returned"
    /\ variant = "partial"
    /\ Len(result) = 4
    /\ Len(chunks) = 3
    /\ chunks[3].start + chunks[3].length > 4
    /\ chunks[1].length = 2

\* the chunk (1-based) the k-th trial of the list belongs to
ChunkOf(k) ==
    CHOOSE j \in 1..Len(chunks) :
        chunks[j].start < k /\ k <= chunks[j].start + chunks[j].length

\* C19: in both randomizers two consecutive chunks never use the same index
\* into values; so for two distinct values the sequence-wise factor of the
\* returned list changes exactly where a new chunk begins: it alternates
\* from chunk to chunk and every chunk is a maximal run.
C19_ConsecutiveChunksDiffer ==
    /\ \A j \in 1..(Len(chunks) - 1) :
         chunks[j].valueIdx # chunks[j + 1].valueIdx
    /\ (pc = "returned" /\ Len(values) = 2 /\ values[1] # values[2]) =>
         \A k \in 1..(Len(result) - 1) :
            (result[k][randomizedSequenceWise] = result[k + 1][randomizedSequenceWise])
                <=> (ChunkOf(k) = ChunkOf(k + 1))

\* the exact variant returns four trials in three chunks, for [true, false]
C19_Witness ==
    /\ pc = "returned"
    /\ variant = "exact"
    /\ values = <<"true", "false">>
    /\ Len(result) = 4
    /\ Len(chunks) = 3
    /\ chunks[2].length = 2
    /\ result[1][randomizedSequenceWise] = result[4][randomizedSequenceWise]
    /\ result[2][randomizedSequenceWise] = result[3][randomizedSequenceWise]
    /\ result[1][randomizedSequenceWise] # result[2][randomizedSequenceWise]

\* C20: for a patternList that contains 1, oneNeededGenerateSequence never
\* fails and never overshoots, and the list it returns has only members of
\* patternList and sums to the number of trials; so the runs of the exact
\* randomizer have exactly these lengths, the last one included: no run is
\* cut off at the end of the list.
C20_ExactRunsSumToTrials ==
    (variant = "exact" /\ 1 \in Range(patternList)) =>
        /\ pc # "threw"
        /\ sum >= 0
        /\ Range(sequence) \subseteq Range(patternList)
        /\ pc \notin {"randomizer", "oneNeeded"} => SumSeq(sequence) = Len(trials)
        /\ pc = "returned" =>
             /\ Len(chunks) = Len(sequence)
             /\ \A j \in 1..Len(chunks) :
                  /\ chunks[j].length = sequence[j]
                  /\ chunks[j].start = SumSeq(SubSeq(sequence, 1, j - 1))
                  /\ chunks[j].start + chunks[j].length <= Len(result)
                  /\ \A k \in (chunks[j].start + 1)..(chunks[j].start + chunks[j].length) :
                       result[k][randomizedSequenceWise] = At(values, chunks[j].valueIdx)

\* the exact variant returns four trials in runs of 3 and 1
C20_Witness ==
    /\ pc = "returned"
    /\ variant = "exact"
    /\ patternList = <<1, 3, 6>>
    /\ sequence = <<3, 1>>
    /\ Len(result) = 4
    /\ chunks[2].start = 3
    /\ chunks[2].length = 1

\* C21: when the exact randomizer is called with a lastValue that occurs in
\* values, the value of the first run differs from lastValue, wherever
\* lastValue stands in values.
C21_FirstRunAvoidsLastValue ==
    (variant = "exact" /\ lastValue # "null" /\ lastValue \in Range(values)
        /\ Len(values) >= 2 /\ chunks # <<>>) =>
        At(values, chunks[1].valueIdx) # lastValue

\* a draw of line 19 (54) that leaves the re-draw loop
RedrawOther == Redraw /\ currentValueIdx' # currentValueIdx

\* the randomizers under fair random draws: a step that can be taken is
\* taken, and a draw that can differ from the previous index does so at
\* some time
FairSpecRandomizer ==
    SpecRandomizer /\ WF_vars(NextRandomizer) /\ WF_vars(RedrawOther)

\* C22: the partial randomizer returns (under fair draws) exactly when
\* values has at least two entries or the factorial design is empty: it
\* returns in these cases, and with a single value and at least one trial
\* it never returns, because the re-draw loop cannot leave.
C22_TerminatesIffTwoValues ==
    /\ [](variant = "partial" /\ pc = "returned" =>
            Len(values) >= 2 \/ Len(result) = 0)
    /\ [](variant = "partial" /\ pc = "redraw" /\ Len(values) = 1 =>
            [](pc = "redraw"))
    /\ (variant = "partial" /\
          (Len(values) >= 2 \/
           Combinations(DeleteKey(factors, randomizedSequenceWise)) = {}))
         ~> (pc = "returned")

\* the re-draw loop of a call with one value and at least one trial
C22_Witness ==
    /\ variant = "partial"
    /\ pc = "redraw"
    /\ Len(values) = 1
    /\ Len(trials) >= 1
    /\ currentValueIdx = prevValue
    /\ singleTrialIdx = 0

\* ------------------------------------------------------------------------
\* ConditionGenerator (color-toj-negation-05: part_016 72-158, quick-toj:
\* part_001 13-64) and Quadrant (part_013 56-126)
\* ------------------------------------------------------------------------
MaxConditions == 2
MaxOrientation == 2      \* orientations are drawn from 0..MaxOrientation (source: 0..17)
MaxGrid == 3             \* grid coordinates are drawn up to MaxGrid (source: up to 5)

\* the trial generators and randomizers are not in use
GeneratorsIdle ==
    /\ factors = <<>>
    /\ repetitions = 0
    /\ trials = <<>>
    /\ result = <<>>
    /\ probeLeftIsFactor = FALSE
    /\ blocksize = 1
    /\ alwaysStayUnderBlockSize = FALSE
    /\ trialSequences = <<>>
    /\ soas = <<>>
    /\ blockIndex = 0
    /\ trialIndexInBlock = 0
    /\ trialCount = 0
    /\ i = 0
    /\ rank = 0
    /\ aliases = <<>>
    /\ randomBelowHalf = FALSE
    /\ firstRun = <<>>
    /\ variant = "none"
    /\ patternList = <<>>
    /\ randomizedSequenceWise = ""
    /\ values = <<>>
    /\ lastValue = "null"
    /\ singleTrialIdx = 0
    /\ restSequenceCount = 0
    /\ currentValueIdx = 0
    /\ value = Undefined
    /\ prevValue = NoIndex
    /\ sequence = <<>>
    /\ sequenceIdx = 0
    /\ sum = 0
    /\ chunks = <<>>

Min(a, b) == IF a < b THEN a ELSE b

\* Quadrant.isLeft
IsLeft(number) == number \in {1, 2}

\* slip: the quadrant at the diagonally opposite site is returned
GetSiblingVerticalDiagonal(number) == (number + 2) % 4

\* Quadrant.getSiblingVertical
GetSiblingVertical(number) == 3 - number

\* Quadrant.getSiblingHorizontal
GetSiblingHorizontal(number) == At(<<1, 0, 3, 2>>, number)

\* Quadrant.getSiblingDiagonal
GetSiblingDiagonal(number) == (number + 2) % 4

\* Quadrant.getRandomMixedSidePairs for the draws a (getRandom) and isCross
GetRandomMixedSidePairs(a, isCross) ==
    << <<a, IF isCross # 0 THEN GetSiblingDiagonal(a) ELSE GetSiblingHorizontal(a)>>,
       <<GetSiblingVertical(a),
         IF isCross # 0 THEN GetSiblingHorizontal(a) ELSE GetSiblingDiagonal(a)>> >>

\* the identifier generateCondition of the negation experiments passes to
\* generateOrientation: none, so the default null
RotationIdentifier == "null"

\* part_016 line 90: identifier && orientation == this._previousOrientations[identifier]
OrientationRepeats(identifier, orientation) ==
    /\ identifier # "null"
    /\ identifier \in DOMAIN previousOrientations
    /\ orientation = previousOrientations[identifier]

\* part_016 lines 91-93: if (identifier) this._previousOrientations[identifier] = orientation
RememberOrientation(identifier, orientation) ==
    IF identifier # "null"
    THEN SetKey(previousOrientations, identifier, orientation)
    ELSE previousOrientations

\* pos == this.previousPositions[identifier]: two arrays are == only when
\* they are the same object
SamePosition(pos, identifier) ==
    /\ identifier \in DOMAIN previousPositions
    /\ pos.id = previousPositions[identifier].id

\* part_001 line 16: gridSize = fieldWidth / gridWidth
GridSize == 320 \div 8

\* ConditionGenerator._generateRandomPos: a new array (object number id)
GenerateRandomPos(id, xRange, yRange) ==
    { [id |-> id, x |-> gx * GridSize, y |-> gy * GridSize] :
        gx \in RandomInt(xRange[1], Min(xRange[2], MaxGrid)),
        gy \in RandomInt(yRange[1], Min(yRange[2], MaxGrid)) }

\* quick-toj mirrorOrientation
MirrorOrientation(orientation) == (orientation + 9) % 18

InitConditions ==
    /\ pc = "conditions"
    /\ experiment \in {"negation", "quick"}
    /\ previousOrientations = <<>>
    /\ previousPositions = <<>>
    /\ cond = <<>>
    /\ lastCond = <<>>
    /\ conditionCount = 0
    /\ GeneratorsIdle
    /\ TouchIdle
    /\ PluginIdle

\* generateCondition(probeLeft) of the negation experiments (part_016
\* 114-157); of the returned condition the quadrants, the probe flags and
\* the rotation are kept
GenerateConditionNegation ==
    /\ pc = "conditions"
    /\ experiment = "negation"
    /\ conditionCount < MaxConditions
    /\ \E probeLeft \in BOOLEAN, a \in RandomInt(0, 3), isCross \in RandomInt(0, 1),
          o \in RandomInt(0, MaxOrientation) :
         LET quadrantPairs == GetRandomMixedSidePairs(a, isCross)
             orientation == o * 10
         IN  /\ ~OrientationRepeats(RotationIdentifier, orientation)
             /\ previousOrientations' = RememberOrientation(RotationIdentifier, orientation)
             /\ cond' = << [quadrantPairs |-> quadrantPairs,
                            primaryIsProbe |->
                                [ p \in 1..2 |->
                                    IF probeLeft THEN IsLeft(quadrantPairs[p][1])
                                    ELSE ~IsLeft(quadrantPairs[p][1]) ],
                            rotation |-> orientation] >>
    /\ lastCond' = cond
    /\ conditionCount' = conditionCount + 1
    /\ UNCHANGED <<pc, factors, repetitions, trials, result, experiment,
                   previousPositions>>
    /\ UNCHANGED generatorVars
    /\ UNCHANGED randomizerVars
    /\ UNCHANGED touchVars
    /\ UNCHANGED pluginVars

\* generateCondition(probeLeft, salient) of quick-toj (part_001 50-63); of
\* the returned condition the orientations and positions are kept
GenerateConditionQuick ==
    /\ pc = "conditions"
    /\ experiment = "quick"
    /\ conditionCount < MaxConditions
    /\ \E probeLeft \in BOOLEAN, salient \in BOOLEAN,
          oriLeft \in RandomInt(0, MaxOrientation),
          posLeft \in GenerateRandomPos(2 * conditionCount + 1, <<3, 5>>, <<2, 5>>),
          posRight \in GenerateRandomPos(2 * conditionCount + 2, <<2, 4>>, <<2, 5>>) :
         LET oriRight == MirrorOrientation(oriLeft)
         IN  /\ ~("left" \in DOMAIN previousOrientations
                    /\ oriLeft = previousOrientations["left"])
             /\ ~SamePosition(posLeft, "left")
             /\ ~SamePosition(posRight, "right")
             /\ previousOrientations' = SetKey(previousOrientations, "left", oriLeft)
             /\ previousPositions' =
                    SetKey(SetKey(previousPositions, "left", posLeft), "right", posRight)
             /\ cond' = << [oriLeft |-> oriLeft,
                            oriRight |-> oriRight,
                            oriProbe |-> IF probeLeft = salient THEN oriRight ELSE oriLeft,
                            oriRef |-> IF probeLeft THEN oriRight ELSE oriLeft,
                            posLeft |-> posLeft,
                            posRight |-> posRight,
                            posProbe |-> IF probeLeft THEN posLeft ELSE posRight,
                            posRef |-> IF probeLeft THEN posRight ELSE posLeft] >>
    /\ lastCond' = cond
    /\ conditionCount' = conditionCount + 1
    /\ UNCHANGED <<pc, factors, repetitions, trials, result, experiment>>
    /\ UNCHANGED generatorVars
    /\ UNCHANGED randomizerVars
    /\ UNCHANGED touchVars
    /\ UNCHANGED pluginVars

NextConditions ==
    \/ GenerateConditionNegation
    \/ GenerateConditionQuick

SpecConditions == InitConditions /\ [][NextConditions]_vars

\* C23: two consecutive conditions of one ConditionGenerator of the
\* negation experiments never have the same rotation.
C23_RotationNeverRepeats ==
    (experiment = "negation" /\ lastCond # <<>>) =>
        cond[1].rotation # lastCond[1].rotation

\* C24: two consecutive quick-toj conditions differ in posLeft and differ
\* in posRight (in at least one coordinate each): generatePosition never
\* returns the position it returned before for the same identifier.
C24_PositionNeverRepeats ==
    (experiment = "quick" /\ lastCond # <<>>) =>
        /\ <<cond[1].posLeft.x, cond[1].posLeft.y>>
               # <<lastCond[1].posLeft.x, lastCond[1].posLeft.y>>
        /\ <<cond[1].posRight.x, cond[1].posRight.y>>
               # <<lastCond[1].posRight.x, lastCond[1].posRight.y>>

\* C25: for every draw, each of the two pairs of getRandomMixedSidePairs
\* has one quadrant on the left and one on the right side, and the four
\* quadrants of the two pairs are the quadrants 0..3, each used once.
C25_MixedSidePairs ==
    (experiment = "negation" /\ cond # <<>>) =>
        LET pairs == cond[1].quadrantPairs
        IN  /\ \A p \in 1..2 : IsLeft(pairs[p][1]) # IsLeft(pairs[p][2])
            /\ {pairs[1][1], pairs[1][2], pairs[2][1], pairs[2][2]} = 0..3

\* the crossed pairs for start quadrant 0
C25_Witness ==
    /\ experiment = "negation"
    /\ cond # <<>>
    /\ cond[1].quadrantPairs = << <<0, 2>>, <<3, 1>> >>

\* ------------------------------------------------------------------------
\* TouchAdapter (part_015)
\* ------------------------------------------------------------------------
MaxElements == 3         \* bind calls are taken while the tracked list is shorter

\* the DOM elements of the page
Elements == {"window", "e1", "e2"}

\* document.getElementById
GetElementById(elementId) == IF elementId \in {"e1", "e2"} THEN elementId ELSE "null"

ElementIds == {"e1", "missing"}

\* document.getElementsByClassName
GetElementsByClassName(classNames) ==
    IF classNames = "target" THEN <<"e1", "e2">> ELSE <<>>

ClassNames == {"target", "unused"}

\* array.splice(index, deleteCount): the returned array of removed elements
SpliceReturn(array, index, deleteCount) ==
    SubSeq(array, index + 1, Min(index + deleteCount, Len(array)))

InitTouch ==
    /\ pc = "touch"
    /\ elements = <<>>
    /\ listeners = {}
    /\ everBound = {}
    /\ lastCall = <<"none", "">>
    /\ simulated = FALSE
    /\ GeneratorsIdle
    /\ ConditionIdle
    /\ PluginIdle

\* lines 32-35, for a list of elements (one call of bindToElement each)
Bind(es) ==
    /\ listeners' = listeners \cup Range(es)
    /\ elements' = elements \o es
    /\ everBound' = everBound \cup Range(es)

\* bindToElement(element)
BindToElement(element) ==
    /\ pc = "touch"
    /\ Len(elements) < MaxElements
    /\ Bind(<<element>>)
    /\ lastCall' = <<"bindToElement", element>>
    /\ UNCHANGED <<pc, factors, repetitions, trials, result, simulated>>
    /\ UNCHANGED <<generatorVars, randomizerVars, conditionVars, pluginVars>>

\* bindById(elementId)
BindById(elementId) ==
    /\ pc = "touch"
    /\ Len(elements) < MaxElements
    /\ LET element == GetElementById(elementId)
       IN  IF element # "null" THEN Bind(<<element>>)
           ELSE UNCHANGED <<listeners, elements, everBound>>
    /\ lastCall' = <<"bindById", elementId>>
    /\ UNCHANGED <<pc, factors, repetitions, trials, result, simulated>>
    /\ UNCHANGED <<generatorVars, randomizerVars, conditionVars, pluginVars>>

\* bindByClass(classNames)
BindByClass(classNames) ==
    /\ pc = "touch"
    /\ Len(elements) < MaxElements
    /\ Bind(GetElementsByClassName(classNames))
    /\ lastCall' = <<"bindByClass", classNames>>
    /\ UNCHANGED <<pc, factors, repetitions, trials, result, simulated>>
    /\ UNCHANGED <<generatorVars, randomizerVars, conditionVars, pluginVars>>

\* lines 70-77: the listener is removed; when the element is tracked,
\* this.elements becomes what splice returns
UnbindElement(element) ==
    /\ listeners' = listeners \ {element}
    /\ LET index == IndexOf(elements, element)
       IN  elements' = IF index > -1 THEN SpliceReturn(elements, index, 1)
                       ELSE elements
    /\ UNCHANGED everBound

\* unbindFromElement(element)
UnbindFromElement(element) ==
    /\ pc = "touch"
    /\ UnbindElement(element)
    /\ lastCall' = <<"unbindFromElement", element>>
    /\ UNCHANGED <<pc, factors, repetitions, trials, result, simulated>>
    /\ UNCHANGED <<generatorVars, randomizerVars, conditionVars, pluginVars>>

\* unbindById(elementId)
UnbindById(elementId) ==
    /\ pc = "touch"
    /\ LET element == GetElementById(elementId)
       IN  IF element # "null" THEN UnbindElement(element)
           ELSE UNCHANGED <<listeners, elements, everBound>>
    /\ lastCall' = <<"unbindById", elementId>>
    /\ UNCHANGED <<pc, factors, repetitions, trials, result, simulated>>
    /\ UNCHANGED <<generatorVars, randomizerVars, conditionVars, pluginVars>>

\* unbindByClass(classNames): _unbindWithoutRemoval for every element
UnbindByClass(classNames) ==
    /\ pc = "touch"
    /\ listeners' = listeners \ Range(GetElementsByClassName(classNames))
    /\ lastCall' = <<"unbindByClass", classNames>>
    /\ UNCHANGED <<pc, factors, repetitions, trials, result, simulated,
                   elements, everBound>>
    /\ UNCHANGED <<generatorVars, randomizerVars, conditionVars, pluginVars>>

\* lines 107-111: the loop over this.elements has an empty body, then the
\* list is emptied
UnbindFromAll ==
    /\ pc = "touch"
    /\ elements' = <<>>
    /\ lastCall' = <<"unbindFromAll", "">>
    /\ UNCHANGED <<pc, factors, repetitions, trials, result, simulated,
                   listeners, everBound>>
    /\ UNCHANGED <<generatorVars, randomizerVars, conditionVars, pluginVars>>

\* a touchstart event on an element: lines 17-25 run when the adapter's
\* listener is attached to it
Touch(element) ==
    /\ pc = "touch"
    /\ simulated' = (element \in listeners)
    /\ lastCall' = <<"touch", element>>
    /\ UNCHANGED <<pc, factors, repetitions, trials, result, elements,
                   listeners, everBound>>
    /\ UNCHANGED <<generatorVars, randomizerVars, conditionVars, pluginVars>>

NextTouch ==
    \/ \E element \in Elements : BindToElement(element)
    \/ \E elementId \in ElementIds : BindById(elementId)
    \/ \E classNames \in ClassNames : BindByClass(classNames)
    \/ \E element \in Elements : UnbindFromElement(element)
    \/ \E elementId \in ElementIds : UnbindById(elementId)
    \/ \E classNames \in ClassNames : UnbindByClass(classNames)
    \/ UnbindFromAll
    \/ \E element \in Elements : Touch(element)

SpecTouch == InitTouch /\ [][NextTouch]_vars

\* C26: after unbindFromAll the adapter's listener is attached to none of
\* the elements the adapter had been bound to, whatever was called before
\* (so that a touch on one of them simulates no key press).
C26_UnbindFromAllDetaches ==
    lastCall[1] = "unbindFromAll" => listeners \cap everBound = {}

\* an array without the first occurrence of an element
RECURSIVE WithoutFirst(_, _)
WithoutFirst(array, element) ==
    IF array = <<>> THEN <<>>
    ELSE IF Head(array) = element THEN Tail(array)
    ELSE <<Head(array)>> \o WithoutFirst(Tail(array), element)

\* C27: unbindFromElement(e) removes only e: the tracked list afterwards
\* is the list before without one occurrence of e (unchanged when e was
\* not tracked), and every other element keeps its listener.
C27_UnbindFromElementRemovesOnlyThat ==
    [][\A element \in Elements :
          UnbindFromElement(element) =>
              /\ elements' = WithoutFirst(elements, element)
              /\ listeners' \ {element} = listeners \ {element}]_vars

\* ------------------------------------------------------------------------
\* TojPlugin.trial and DualNegationTojPlugin.trial (part_017)
\* ------------------------------------------------------------------------
MaxSoa == 1              \* SOAs are -MaxSoa..MaxSoa clock ticks
MaxFixation == 2         \* fixation times are 1..MaxFixation clock ticks
MaxTime == 4             \* the clock stops here

Abs(n) == IF n < 0 THEN -n ELSE n

\* slip: the reference is always modified first
FirstElementReference(soaValue, probe, reference) == reference

\* doTojModification lines 621-626: the element modified before the delay
FirstElement(soaValue, probe, reference) ==
    IF soaValue < 0 THEN probe ELSE reference

\* doTojModification lines 624-630: the element modified after the delay
SecondElement(soaValue, probe, reference) ==
    IF soaValue < 0 THEN reference ELSE probe

\* doTojModification: whether a delay is awaited between the two calls
\* (line 623 for soa < 0, lines 627-629 otherwise)
AwaitsDelay(soaValue) == soaValue < 0 \/ soaValue # 0

\* modificationFunction(element), called now
Modify(log, element) == Append(log, [element |-> element, at |-> now])

InitPlugin ==
    /\ pc = "plugin"
    /\ plugin \in {"toj", "dual"}
    /\ trial \in [ soa : -MaxSoa..MaxSoa,
                   fixation_time : 1..MaxFixation,
                   distractor_soa : -MaxSoa..MaxSoa,
                   distractor_fixation_time : 1..MaxFixation,
                   play_feedback : BOOLEAN ]
    /\ plugin = "toj" => trial.distractor_soa = 0 /\ trial.distractor_fixation_time = 1
    /\ mainPc = IF plugin = "dual" THEN "instruction" ELSE "start"
    /\ distractorPc = "idle"
    /\ now = 0
    /\ mainTimer = NoTimer
    /\ distractorTimer = NoTimer
    /\ modified = <<>>
    /\ listeningSince = NoTimer
    /\ cleared = FALSE
    /\ finishCount = 0
    /\ GeneratorsIdle
    /\ ConditionIdle
    /\ TouchIdle

\* DualNegationTojPlugin.trial lines 445-447: the instruction has been played
InstructionOver ==
    /\ pc = "plugin"
    /\ mainPc = "instruction"
    /\ mainPc' = "start"
    /\ UNCHANGED <<pc, factors, repetitions, trials, result, plugin, trial,
                   distractorPc, now, mainTimer, distractorTimer, modified,
                   listeningSince, cleared, finishCount>>
    /\ UNCHANGED <<generatorVars, randomizerVars, conditionVars, touchVars>>

\* TojPlugin.trial lines 674-681 up to await delay(trial.fixation_time); in
\* DualNegationTojPlugin.trial (lines 459-462) modifyDistractorStimuli is
\* called right after it and runs up to its own delay (line 450)
TrialStart ==
    /\ pc = "plugin"
    /\ mainPc = "start"
    /\ mainPc' = "fixation"
    /\ mainTimer' = now + trial.fixation_time
    /\ IF plugin = "dual"
       THEN /\ distractorPc' = "fixation"
            /\ distractorTimer' = now + trial.distractor_fixation_time
       ELSE UNCHANGED <<distractorPc, distractorTimer>>
    /\ UNCHANGED <<pc, factors, repetitions, trials, result, plugin, trial,
                   now, modified, listeningSince, cleared, finishCount>>
    /\ UNCHANGED <<generatorVars, randomizerVars, conditionVars, touchVars>>

\* lines 684-689 with doTojModification up to its delay; without a delay
\* both elements are modified and getKeyboardResponse is called (line 696)
MainFixationOver ==
    /\ pc = "plugin"
    /\ mainPc = "fixation"
    /\ now = mainTimer
    /\ LET first == FirstElement(trial.soa, "probe", "reference")
           second == SecondElement(trial.soa, "probe", "reference")
       IN  IF AwaitsDelay(trial.soa)
           THEN /\ modified' = Modify(modified, first)
                /\ mainPc' = "soaDelay"
                /\ mainTimer' = now + Abs(trial.soa)
                /\ UNCHANGED listeningSince
           ELSE /\ modified' = Modify(Modify(modified, first), second)
                /\ mainPc' = "listening"
                /\ mainTimer' = NoTimer
                /\ listeningSince' = now
    /\ UNCHANGED <<pc, factors, repetitions, trials, result, plugin, trial,
                   distractorPc, now, distractorTimer, cleared, finishCount>>
    /\ UNCHANGED <<generatorVars, randomizerVars, conditionVars, touchVars>>

\* doTojModification after its delay (lines 624, 630), then line 696
MainSoaOver ==
    /\ pc = "plugin"
    /\ mainPc = "soaDelay"
    /\ now = mainTimer
    /\ modified' = Modify(modified, SecondElement(trial.soa, "probe", "reference"))
    /\ mainPc' = "listening"
    /\ mainTimer' = NoTimer
    /\ listeningSince' = now
    /\ UNCHANGED <<pc, factors, repetitions, trials, result, plugin, trial,
                   distractorPc, now, distractorTimer, cleared, finishCount>>
    /\ UNCHANGED <<generatorVars, randomizerVars, conditionVars, touchVars>>

\* modifyDistractorStimuli lines 450-456 up to the delay of doTojModification
DistractorFixationOver ==
    /\ pc = "plugin"
    /\ distractorPc = "fixation"
    /\ now = distractorTimer
    /\ LET first == FirstElement(trial.distractor_soa,
                                 "distractor_probe", "distractor_reference")
           second == SecondElement(trial.distractor_soa,
                                   "distractor_probe", "distractor_reference")
       IN  IF AwaitsDelay(trial.distractor_soa)
           THEN /\ modified' = Modify(modified, first)
                /\ distractorPc' = "soaDelay"
                /\ distractorTimer' = now + Abs(trial.distractor_soa)
           ELSE /\ modified' = Modify(Modify(modified, first), second)
                /\ distractorPc' = "done"
                /\ distractorTimer' = NoTimer
    /\ UNCHANGED <<pc, factors, repetitions, trials, result, plugin, trial,
                   mainPc, now, mainTimer, listeningSince, cleared, finishCount>>
    /\ UNCHANGED <<generatorVars, randomizerVars, conditionVars, touchVars>>

\* modifyDistractorStimuli: doTojModification after its delay
DistractorSoaOver ==
    /\ pc = "plugin"
    /\ distractorPc = "soaDelay"
    /\ now = distractorTimer
    /\ modified' = Modify(modified,
                          SecondElement(trial.distractor_soa,
                                        "distractor_probe", "distractor_reference"))
    /\ distractorPc' = "done"
    /\ distractorTimer' = NoTimer
    /\ UNCHANGED <<pc, factors, repetitions, trials, result, plugin, trial,
                   mainPc, now, mainTimer, listeningSince, cleared, finishCount>>
    /\ UNCHANGED <<generatorVars, randomizerVars, conditionVars, touchVars>>

\* a valid key is pressed while the plugin listens: lines 703-735 up to
\* await playAudio (line 729), or to finishTrial when no feedback is played
Response ==
    /\ pc = "plugin"
    /\ mainPc = "listening"
    /\ cleared' = TRUE
    /\ IF trial.play_feedback
       THEN mainPc' = "feedback" /\ UNCHANGED finishCount
       ELSE mainPc' = "finished" /\ finishCount' = finishCount + 1
    /\ UNCHANGED <<pc, factors, repetitions, trials, result, plugin, trial,
                   distractorPc, now, mainTimer, distractorTimer, modified,
                   listeningSince>>
    /\ UNCHANGED <<generatorVars, randomizerVars, conditionVars, touchVars>>

\* the feedback sound has been played: lines 732-735
FeedbackOver ==
    /\ pc = "plugin"
    /\ mainPc = "feedback"
    /\ mainPc' = "finished"
    /\ finishCount' = finishCount + 1
    /\ UNCHANGED <<pc, factors, repetitions, trials, result, plugin, trial,
                   distractorPc, now, mainTimer, distractorTimer, modified,
                   listeningSince, cleared>>
    /\ UNCHANGED <<generatorVars, randomizerVars, conditionVars, touchVars>>

\* time passes while no awaited delay is over
Tick ==
    /\ pc = "plugin"
    /\ now < MaxTime
    /\ mainTimer # now
    /\ distractorTimer # now
    /\ now' = now + 1
    /\ UNCHANGED <<pc, factors, repetitions, trials, result, plugin, trial,
                   mainPc, distractorPc, mainTimer, distractorTimer, modified,
                   listeningSince, cleared, finishCount>>
    /\ UNCHANGED <<generatorVars, randomizerVars, conditionVars, touchVars>>

NextPlugin ==
    \/ InstructionOver
    \/ TrialStart
    \/ MainFixationOver
    \/ MainSoaOver
    \/ DistractorFixationOver
    \/ DistractorSoaOver
    \/ Response
    \/ FeedbackOver
    \/ Tick

SpecPlugin == InitPlugin /\ [][NextPlugin]_vars

\* positions in the log of the calls of the modification function for an element
CallsFor(element) == { k \in DOMAIN modified : modified[k].element = element }

\* the only call for an element
CallFor(element) == CHOOSE k \in DOMAIN modified : modified[k].element = element

\* C28: in every trial the modification function is applied exactly once
\* to the probe and exactly once to the reference: for soa < 0 the probe
\* first and the reference -soa later, for soa > 0 the reference first and
\* the probe soa later, for soa = 0 one right after the other at the same
\* time; the plugin listens for the response only after both calls.
C28_ModifiedOnceInSoaOrder ==
    /\ Cardinality(CallsFor("probe")) <= 1
    /\ Cardinality(CallsFor("reference")) <= 1
    /\ (CallsFor("probe") # {} /\ trial.soa >= 0) => CallsFor("reference") # {}
    /\ (CallsFor("reference") # {} /\ trial.soa < 0) => CallsFor("probe") # {}
    /\ mainPc \in {"listening", "feedback", "finished"} =>
         /\ CallsFor("probe") # {}
         /\ CallsFor("reference") # {}
         /\ LET p == CallFor("probe")
                r == CallFor("reference")
            IN  /\ trial.soa < 0 => p < r
                /\ trial.soa > 0 => r < p
                /\ trial.soa = 0 => p = r + 1
                /\ modified[p].at - modified[r].at = trial.soa
                /\ listeningSince >= modified[p].at
                /\ listeningSince >= modified[r].at
    /\ mainPc \notin {"listening", "feedback", "finished"} => listeningSince = NoTimer

\* a dual trial with soa < 0 whose distractor was modified in between
C28_Witness ==
    /\ plugin = "dual"
    /\ mainPc = "finished"
    /\ trial.soa = -1
    /\ Len(modified) = 4
    /\ modified[1].element = "probe"
    /\ modified[4].element = "reference"
    /\ modified[4].at = modified[1].at + 1

\* C29: in DualNegationTojPlugin.trial the display is not cleared and
\* finishTrial is not called before both distractor stimuli have been
\* modified, however the response interleaves with the distractor's delays.
C29_FinishAfterDistractor ==
    (plugin = "dual" /\ (cleared \/ finishCount > 0)) =>
        /\ CallsFor("distractor_probe") # {}
        /\ CallsFor("distractor_reference") # {}

====
